---- MODULE Spec2Model ----
(***************************************************************************)
(* Model of pyreprap.py: the RepRap class, a client that sends GCode lines *)
(* over one telnetlib.Telnet connection and interprets single response     *)
(* lines.  Strings are sequences of one-character strings, so that         *)
(* str.startswith, str.strip, string concatenation and json.loads are      *)
(* computed character by character as the Python code computes them.       *)
(***************************************************************************)
EXTENDS Integers, Sequences, FiniteSets, TLC

\* ------------------------------------------------------------------ bounds
MaxCalls == 2        \* command-method calls issued on the client
MaxDeliveries == 2   \* chunks of text the printer sends over the connection
MaxDisposals == 2    \* invocations of __del__
OutOfRange == 1      \* how far below 0 a requested status level may lie

\* --------------------------------------------------------------- constants
DefaultLevel == 2        \* getStatusResponse(self, level = 2)
MaxLevel == 5            \* ":param level (optional) an int between 0 and 5"
LevelCap == 2            \* level = min(level, 2)
DefaultTimeout == 10     \* _readResponse(self, timeout = 10)
HashTimeout == 120       \* self._readResponse(timeout = 120)

LF == "\n"
CR == "\r"
QUOTE == "\""

ErrorPrefix == <<"E", "r", "r", "o", "r", ":">>
CannotPrefix == <<"C", "a", "n", "n", "o", "t", " ", "f", "i", "n", "d", " ", "f", "i", "l", "e">>
M38 == <<"M", "3", "8", " ">>
M32 == <<"M", "3", "2", " ">>
M408 == <<"M", "4", "0", "8", " ", "S">>
StatusKey == <<"s", "t", "a", "t", "u", "s">>
PrintingCode == <<"P">>

\* ------------------------------------------------------------ input domains
Filepaths == {<<"a">>, <<"b", ".", "g">>}
\* requested levels: below the documented range, its ends, the cap, one above
Levels == {0 - OutOfRange, 0, LevelCap, LevelCap + 1, MaxLevel}

\* Text the printer may put on the connection: whole lines with their
\* terminator, and one fragment that has no terminator yet.
HashLine == <<"d", "a", "3", "9", CR, LF>>
ErrorLine == <<"E", "r", "r", "o", "r", ":", " ", "T", LF>>
MissingLine == <<"C", "a", "n", "n", "o", "t", " ", "f", "i", "n", "d", " ", "f", "i", "l", "e", " ", "a", LF>>
EmptyLine == <<CR, LF>>
PrintingLine == <<"{", QUOTE, "s", "t", "a", "t", "u", "s", QUOTE, ":", QUOTE, "P", QUOTE, "}", LF>>
IdleLine == <<"{", QUOTE, "s", "t", "a", "t", "u", "s", QUOTE, ":", " ", QUOTE, "I", QUOTE, "}", CR, LF>>
NoStatusLine == <<"{", QUOTE, "f", QUOTE, ":", "4", "2", "}", LF>>
NullLine == <<"n", "u", "l", "l", LF>>
LeadingCRLine == <<CR, "o", "k", LF>>
Fragment == <<"d", "a">>
Chunks == {HashLine, ErrorLine, MissingLine, EmptyLine, PrintingLine, IdleLine,
           NoStatusLine, NullLine, LeadingCRLine, Fragment}

\* ------------------------------------------------------------ Python values
PyNone == [t |-> "None"]
PyStr(s) == [t |-> "str", v |-> s]
PyInt(n) == [t |-> "int", v |-> n]
PyBool(b) == [t |-> "bool", v |-> b]
PyDict(items) == [t |-> "dict", v |-> items]
NoValue == [t |-> "raised"]

\* ------------------------------------------------------- string operations
\* str.startswith(prefix)
startswith(s, prefix) ==
  /\ Len(s) >= Len(prefix)
  /\ SubSeq(s, 1, Len(prefix)) = prefix

RECURSIVE lstrip(_, _)
lstrip(s, chars) ==
  IF s # <<>> /\ Head(s) \in chars THEN lstrip(Tail(s), chars) ELSE s

RECURSIVE rstrip(_, _)
rstrip(s, chars) ==
  IF s # <<>> /\ s[Len(s)] \in chars
  THEN rstrip(SubSeq(s, 1, Len(s) - 1), chars)
  ELSE s

\* str.strip(chars): removes the characters of chars from both ends
strip(s, chars) == rstrip(lstrip(s, chars), chars)

\* str.find(c) for a one-character c, 1-based; 0 when absent
RECURSIVE findFrom(_, _, _)
findFrom(s, c, i) ==
  IF i > Len(s) THEN 0
  ELSE IF s[i] = c THEN i
  ELSE findFrom(s, c, i + 1)

find(s, c) == findFrom(s, c, 1)

Digits == <<"0", "1", "2", "3", "4", "5", "6", "7", "8", "9">>

RECURSIVE strNat(_)
strNat(n) ==
  IF n < 10 THEN <<Digits[n + 1]>>
  ELSE strNat(n \div 10) \o <<Digits[(n % 10) + 1]>>

\* str(n) for an int
str(n) == IF n < 0 THEN <<"-">> \o strNat(0 - n) ELSE strNat(n)

\* min(a, b) for ints
min(a, b) == IF a < b THEN a ELSE b

\* ------------------------------------------------------------- json.loads
\* The decoder for the part of JSON the modelled lines use: objects with
\* string keys, strings without escapes, non-negative integers, null, and
\* whitespace between tokens.  Anything else is a ValueError.
ParseFail == [ok |-> FALSE, val |-> NoValue, end |-> 0]
ParseOk(val, end) == [ok |-> TRUE, val |-> val, end |-> end]

Whitespace == {" ", "\t", LF, CR}

RECURSIVE skipws(_, _)
skipws(s, i) ==
  IF i <= Len(s) /\ s[i] \in Whitespace THEN skipws(s, i + 1) ELSE i

IsDigit(c) == \E k \in 1..10 : Digits[k] = c
DigitVal(c) == (CHOOSE k \in 1..10 : Digits[k] = c) - 1

\* scans a string body; i is the position after the opening quote
RECURSIVE scanstring(_, _, _)
scanstring(s, i, acc) ==
  IF i > Len(s) THEN ParseFail
  ELSE IF s[i] = QUOTE THEN ParseOk(PyStr(acc), i + 1)
  ELSE scanstring(s, i + 1, Append(acc, s[i]))

RECURSIVE scandigits(_, _, _)
scandigits(s, i, acc) ==
  IF i <= Len(s) /\ IsDigit(s[i])
  THEN scandigits(s, i + 1, acc * 10 + DigitVal(s[i]))
  ELSE ParseOk(PyInt(acc), i)

scannumber(s, i) ==
  IF s[i] = "0" THEN ParseOk(PyInt(0), i + 1) ELSE scandigits(s, i, 0)

RECURSIVE scanvalue(_, _)
RECURSIVE scanmembers(_, _, _)

\* i is the position where a key string must start; acc the pairs so far
scanmembers(s, i, acc) ==
  IF i > Len(s) \/ s[i] # QUOTE THEN ParseFail
  ELSE
    LET key == scanstring(s, i + 1, <<>>)
        colon == skipws(s, key.end)
        val == scanvalue(s, skipws(s, colon + 1))
        sep == skipws(s, val.end)
        items == Append(acc, <<key.val.v, val.val>>)
    IN IF ~key.ok THEN ParseFail
       ELSE IF colon > Len(s) \/ s[colon] # ":" THEN ParseFail
       ELSE IF ~val.ok THEN ParseFail
       ELSE IF sep > Len(s) THEN ParseFail
       ELSE IF s[sep] = "}" THEN ParseOk(PyDict(items), sep + 1)
       ELSE IF s[sep] = "," THEN scanmembers(s, skipws(s, sep + 1), items)
       ELSE ParseFail

scanobject(s, i) ==
  LET first == skipws(s, i)
  IN IF first <= Len(s) /\ s[first] = "}" THEN ParseOk(PyDict(<<>>), first + 1)
     ELSE scanmembers(s, first, <<>>)

scanvalue(s, i) ==
  IF i > Len(s) THEN ParseFail
  ELSE IF s[i] = QUOTE THEN scanstring(s, i + 1, <<>>)
  ELSE IF s[i] = "{" THEN scanobject(s, i + 1)
  ELSE IF IsDigit(s[i]) THEN scannumber(s, i)
  ELSE IF i + 3 <= Len(s) /\ SubSeq(s, i, i + 3) = <<"n", "u", "l", "l">>
       THEN ParseOk(PyNone, i + 4)
  ELSE ParseFail

\* json.loads(s): [raise, val]
json_loads(s) ==
  LET r == scanvalue(s, skipws(s, 1))
  IN IF r.ok /\ skipws(s, r.end) > Len(s)
     THEN [raise |-> "none", val |-> r.val]
     ELSE [raise |-> "ValueError", val |-> NoValue]

\* d[key] on a dict built from pairs: the last pair with that key wins
RECURSIVE dictIndex(_, _, _)
dictIndex(items, key, i) ==
  IF i = 0 THEN 0
  ELSE IF items[i][1] = key THEN i
  ELSE dictIndex(items, key, i - 1)

\* obj[key] for a string key: [raise, val]
getitem(obj, key) ==
  IF obj.t = "dict"
  THEN LET i == dictIndex(obj.v, key, Len(obj.v))
       IN IF i = 0 THEN [raise |-> "KeyError", val |-> NoValue]
          ELSE [raise |-> "none", val |-> obj.v[i][2]]
  ELSE [raise |-> "TypeError", val |-> NoValue]

\* a == b where b is a str
eqStr(a, s) == a.t = "str" /\ a.v = s

\* ---------------------------------------------------------------- telnetlib
\* mutant: a wait that ends with no text received raises, peer gone or not
read_until_strict(q, match, peerGone) ==
  LET i == find(q, match)
  IN IF i > 0
     THEN [raise |-> "none", buf |-> SubSeq(q, 1, i), rest |-> SubSeq(q, i + 1, Len(q))]
     ELSE IF q = <<>>
     THEN [raise |-> "EOFError", buf |-> <<>>, rest |-> <<>>]
     ELSE [raise |-> "none", buf |-> q, rest |-> <<>>]


\* Telnet.read_until('\n', timeout) on the text q received and not yet read,
\* at the moment the wait ends: a complete line is returned through its
\* newline; otherwise everything received is returned (possibly nothing),
\* except that nothing received on a connection the peer has closed raises
\* EOFError.  The text is taken to hold no telnet control bytes (IAC, NUL),
\* which telnetlib would remove; the calls are atomic, so text that arrives
\* during the wait counts as received before the call.
read_until(q, match, peerGone) ==
  LET i == find(q, match)
  IN IF i > 0
     THEN [raise |-> "none", buf |-> SubSeq(q, 1, i), rest |-> SubSeq(q, i + 1, Len(q))]
     ELSE IF q = <<>> /\ peerGone
     THEN [raise |-> "EOFError", buf |-> <<>>, rest |-> <<>>]
     ELSE [raise |-> "none", buf |-> q, rest |-> <<>>]

\* Telnet.write(buffer) on an open socket: sendall may fail once the peer has
\* gone (sendOk = FALSE)
telnet_write(sendOk) == IF sendOk THEN "none" ELSE "socket.error"

\* ------------------------------------------------------------------ RepRap
\* mutant: the line is written again after the first write
_sendRawGCode_twice(gcode, sendOk) ==
  [wrote |-> <<gcode, gcode>>, raise |-> telnet_write(sendOk)]


_sendRawGCode(gcode, sendOk) ==
  [wrote |-> <<gcode>>, raise |-> telnet_write(sendOk)]

\* mutant: EOFError is caught and an empty line returned in its place
_readResponse_swallows(q, peerGone, timeout) ==
  LET r == read_until(q, LF, peerGone)
  IN [raise |-> "none", s |-> strip(r.buf, {CR, LF}), rest |-> r.rest,
      timeout |-> timeout]


_readResponse(q, peerGone, timeout) ==
  LET r == read_until(q, LF, peerGone)
  IN [raise |-> r.raise, s |-> strip(r.buf, {CR, LF}), rest |-> r.rest,
      timeout |-> timeout]

\* the outcome of a call: what it wrote, the lines its reads returned and
\* their timeouts, the exception it raised if any, the value it returned,
\* and the received text it left unread
Outcome(wrote, reads, timeouts, raise, ret, rest) ==
  [wrote |-> wrote, reads |-> reads, timeouts |-> timeouts, raise |-> raise,
   ret |-> ret, rest |-> rest]

\* mutant: the "Error:" line is never skipped
hashFileRereads_never(s) == FALSE


hashFileRereads(s) == startswith(s, ErrorPrefix)

\* mutant: the test for "Cannot find file" is inverted
hashFileResult_inverted(s) == IF startswith(s, CannotPrefix) THEN s ELSE <<>>

\* mutant: the "Cannot find file" line is returned like any other
hashFileResult_unchecked(s) == s


hashFileResult(s) == IF startswith(s, CannotPrefix) THEN <<>> ELSE s

hashFileCommand(filepath) == M38 \o filepath \o <<LF>>

\* mutant: a second "Error:" line is skipped as well
hashFile_skipsTwo(filepath, q, peerGone, sendOk) ==
  LET w == _sendRawGCode(hashFileCommand(filepath), sendOk)
      r1 == _readResponse(q, peerGone, HashTimeout)
      r2 == _readResponse(r1.rest, peerGone, DefaultTimeout)
      r3 == _readResponse(r2.rest, peerGone, DefaultTimeout)
  IN IF w.raise # "none"
     THEN Outcome(w.wrote, <<>>, <<>>, w.raise, NoValue, q)
     ELSE IF r1.raise # "none"
     THEN Outcome(w.wrote, <<>>, <<r1.timeout>>, r1.raise, NoValue, r1.rest)
     ELSE IF ~hashFileRereads(r1.s)
     THEN Outcome(w.wrote, <<r1.s>>, <<r1.timeout>>, "none",
                  PyStr(hashFileResult(r1.s)), r1.rest)
     ELSE IF r2.raise # "none"
     THEN Outcome(w.wrote, <<r1.s>>, <<r1.timeout, r2.timeout>>, r2.raise,
                  NoValue, r2.rest)
     ELSE IF ~hashFileRereads(r2.s)
     THEN Outcome(w.wrote, <<r1.s, r2.s>>, <<r1.timeout, r2.timeout>>, "none",
                  PyStr(hashFileResult(r2.s)), r2.rest)
     ELSE IF r3.raise # "none"
     THEN Outcome(w.wrote, <<r1.s, r2.s>>,
                  <<r1.timeout, r2.timeout, r3.timeout>>, r3.raise, NoValue,
                  r3.rest)
     ELSE Outcome(w.wrote, <<r1.s, r2.s, r3.s>>,
                  <<r1.timeout, r2.timeout, r3.timeout>>, "none",
                  PyStr(hashFileResult(r3.s)), r3.rest)


hashFile(filepath, q, peerGone, sendOk) ==
  LET w == _sendRawGCode(hashFileCommand(filepath), sendOk)
      r1 == _readResponse(q, peerGone, HashTimeout)
      r2 == _readResponse(r1.rest, peerGone, DefaultTimeout)
  IN IF w.raise # "none"
     THEN Outcome(w.wrote, <<>>, <<>>, w.raise, NoValue, q)
     ELSE IF r1.raise # "none"
     THEN Outcome(w.wrote, <<>>, <<r1.timeout>>, r1.raise, NoValue, r1.rest)
     ELSE IF ~hashFileRereads(r1.s)
     THEN Outcome(w.wrote, <<r1.s>>, <<r1.timeout>>, "none",
                  PyStr(hashFileResult(r1.s)), r1.rest)
     ELSE IF r2.raise # "none"
     THEN Outcome(w.wrote, <<r1.s>>, <<r1.timeout, r2.timeout>>, r2.raise,
                  NoValue, r2.rest)
     ELSE Outcome(w.wrote, <<r1.s, r2.s>>, <<r1.timeout, r2.timeout>>, "none",
                  PyStr(hashFileResult(r2.s)), r2.rest)

printFileCommand(filepath) == M32 \o filepath \o <<LF>>

\* mutant: the reply to M32 is read and dropped
printFile_reads(filepath, q, peerGone, sendOk) ==
  LET w == _sendRawGCode(printFileCommand(filepath), sendOk)
      r == _readResponse(q, peerGone, DefaultTimeout)
  IN IF w.raise # "none"
     THEN Outcome(w.wrote, <<>>, <<>>, w.raise, NoValue, q)
     ELSE IF r.raise # "none"
     THEN Outcome(w.wrote, <<>>, <<r.timeout>>, r.raise, NoValue, r.rest)
     ELSE Outcome(w.wrote, <<r.s>>, <<r.timeout>>, "none", PyNone, r.rest)


printFile(filepath, q, peerGone, sendOk) ==
  LET w == _sendRawGCode(printFileCommand(filepath), sendOk)
  IN IF w.raise # "none"
     THEN Outcome(w.wrote, <<>>, <<>>, w.raise, NoValue, q)
     ELSE Outcome(w.wrote, <<>>, <<>>, "none", PyNone, q)

\* mutant: the requested level is sent as it is
clampLevel_none(level) == level


clampLevel(level) == min(level, LevelCap)

getStatusCommand(level) == M408 \o str(clampLevel(level)) \o <<LF>>

\* mutant: a line that does not parse gives None, as the docstring has it
getStatusResponse_catches(level, q, peerGone, sendOk) ==
  LET w == _sendRawGCode(getStatusCommand(level), sendOk)
      r == _readResponse(q, peerGone, DefaultTimeout)
      j == json_loads(r.s)
  IN IF w.raise # "none"
     THEN Outcome(w.wrote, <<>>, <<>>, w.raise, NoValue, q)
     ELSE IF r.raise # "none"
     THEN Outcome(w.wrote, <<>>, <<r.timeout>>, r.raise, NoValue, r.rest)
     ELSE IF r.s = <<>> \/ j.raise # "none"
     THEN Outcome(w.wrote, <<r.s>>, <<r.timeout>>, "none", PyNone, r.rest)
     ELSE Outcome(w.wrote, <<r.s>>, <<r.timeout>>, j.raise, j.val, r.rest)


\* mutant: the empty line is handed to json.loads like any other
getStatusResponse_parsesEmpty(level, q, peerGone, sendOk) ==
  LET w == _sendRawGCode(getStatusCommand(level), sendOk)
      r == _readResponse(q, peerGone, DefaultTimeout)
      j == json_loads(r.s)
  IN IF w.raise # "none"
     THEN Outcome(w.wrote, <<>>, <<>>, w.raise, NoValue, q)
     ELSE IF r.raise # "none"
     THEN Outcome(w.wrote, <<>>, <<r.timeout>>, r.raise, NoValue, r.rest)
     ELSE Outcome(w.wrote, <<r.s>>, <<r.timeout>>, j.raise, j.val, r.rest)


getStatusResponse(level, q, peerGone, sendOk) ==
  LET w == _sendRawGCode(getStatusCommand(level), sendOk)
      r == _readResponse(q, peerGone, DefaultTimeout)
      j == json_loads(r.s)
  IN IF w.raise # "none"
     THEN Outcome(w.wrote, <<>>, <<>>, w.raise, NoValue, q)
     ELSE IF r.raise # "none"
     THEN Outcome(w.wrote, <<>>, <<r.timeout>>, r.raise, NoValue, r.rest)
     ELSE IF r.s = <<>>
     THEN Outcome(w.wrote, <<r.s>>, <<r.timeout>>, "none", PyNone, r.rest)
     ELSE Outcome(w.wrote, <<r.s>>, <<r.timeout>>, j.raise, j.val, r.rest)

\* mutant: the comparison with 'P' is negated
statusIsPrinting_negated(status) ==
  LET f == getitem(status, StatusKey)
  IN IF f.raise # "none" THEN [raise |-> f.raise, val |-> NoValue]
     ELSE [raise |-> "none", val |-> PyBool(~eqStr(f.val, PrintingCode))]


\* status['status'] == 'P' on a status that is not None: [raise, val]
statusIsPrinting(status) ==
  LET f == getitem(status, StatusKey)
  IN IF f.raise # "none" THEN [raise |-> f.raise, val |-> NoValue]
     ELSE [raise |-> "none", val |-> PyBool(eqStr(f.val, PrintingCode))]

isPrinting(q, peerGone, sendOk) ==
  LET o == getStatusResponse(DefaultLevel, q, peerGone, sendOk)
      p == statusIsPrinting(o.ret)
  IN IF o.raise # "none" THEN o
     ELSE IF o.ret = PyNone
     THEN Outcome(o.wrote, o.reads, o.timeouts, "none", PyBool(FALSE), o.rest)
     ELSE Outcome(o.wrote, o.reads, o.timeouts, p.raise, p.val, o.rest)


\* ------------------------------------------------------------------- state
VARIABLES
  pc,          \* "new" before RepRap(host), then "live" or "failed"
  telnet,      \* self.telnet: "unset", "open" or "closed"
  opens,       \* connections opened so far
  closes,      \* times an open socket was closed
  disposals,   \* invocations of __del__ so far
  delRaise,    \* the exception the last __del__ raised, "none" if none
  inbound,     \* text received from the printer and not yet read
  peerGone,    \* the printer has closed its end of the connection
  delivered,   \* chunks the printer has sent so far
  recording,   \* the transport is a test double that records its use
  writes,      \* recorded: the arguments of telnet.write, in order
  calls,       \* recorded: the command-method calls issued, in order
  last,        \* the last command-method call and its outcome
  serial,      \* the callers serialize their calls (one call at a time)
  proc,        \* per caller: where it is in the method it has called
  senders,     \* the caller of each command written, in order
  answered,    \* how many of the commands written the printer has answered
  owners,      \* for each character of inbound, the command it answers
  finished     \* the last call made step by step and its outcome

\* the state of the step-by-step runs
stepVars == <<serial, proc, senders, answered, owners, finished>>

vars == <<pc, telnet, opens, closes, disposals, delRaise, inbound, peerGone,
          delivered, recording, writes, calls, last, serial, proc, senders,
          answered, owners, finished>>

Callers == {"A", "B"}

Idle == [pc |-> "idle", op |-> "none", cmd |-> 0]

NoneFinished ==
  [caller |-> "none", cmd |-> 0, op |-> "none", took |-> {}, left |-> {},
   raise |-> "none", ret |-> PyNone]

\* no call is being made step by step
InitSteps(ser) ==
  /\ serial = ser
  /\ proc = [c \in Callers |-> Idle]
  /\ senders = <<>>
  /\ answered = 0
  /\ owners = <<>>
  /\ finished = NoneFinished

NoCall ==
  [op |-> "none", filepath |-> <<>>, level |-> DefaultLevel, before |-> <<>>,
   gone |-> FALSE, wrote |-> <<>>, reads |-> <<>>, timeouts |-> <<>>,
   raise |-> "none", ret |-> PyNone, rest |-> <<>>]

\* before RepRap(host) is evaluated
Init ==
  /\ pc = "new"
  /\ telnet = "unset"
  /\ opens = 0
  /\ closes = 0
  /\ disposals = 0
  /\ delRaise = "none"
  /\ inbound = <<>>
  /\ peerGone = FALSE
  /\ delivered = 0
  /\ recording = FALSE
  /\ writes = <<>>
  /\ calls = <<>>
  /\ last = NoCall
  /\ InitSteps(TRUE)

\* a client constructed over a recording transport
InitRecorded ==
  /\ pc = "live"
  /\ telnet = "open"
  /\ opens = 1
  /\ closes = 0
  /\ disposals = 0
  /\ delRaise = "none"
  /\ inbound = <<>>
  /\ peerGone = FALSE
  /\ delivered = 0
  /\ recording = TRUE
  /\ writes = <<>>
  /\ calls = <<>>
  /\ last = NoCall
  /\ InitSteps(TRUE)

\* RepRap(host): telnetlib.Telnet(host, telnet_port) connects or raises, and
\* only a successful connect is assigned to self.telnet
Construct(connected) ==
  /\ pc = "new"
  /\ pc' = IF connected THEN "live" ELSE "failed"
  /\ telnet' = IF connected THEN "open" ELSE "unset"
  /\ opens' = IF connected THEN opens + 1 ELSE opens
  /\ UNCHANGED <<closes, disposals, delRaise, inbound, peerGone, delivered,
                 recording, writes, calls, last>>
  /\ UNCHANGED stepVars

\* the exception self.telnet.close() raises in __del__
delOutcome(t) == IF t = "unset" THEN "AttributeError" ELSE "none"

\* __del__: self.telnet.close(); Telnet.close() closes the socket if it is
\* still open and is a no-op afterwards
Del ==
  /\ pc \in {"live", "failed"}
  /\ disposals < MaxDisposals
  /\ disposals' = disposals + 1
  /\ delRaise' = delOutcome(telnet)
  /\ telnet' = IF telnet = "open" THEN "closed" ELSE telnet
  /\ closes' = IF telnet = "open" THEN closes + 1 ELSE closes
  /\ UNCHANGED <<pc, opens, inbound, peerGone, delivered, recording, writes,
                 calls, last>>
  /\ UNCHANGED stepVars

\* mutant: a call that fails on the connection opens a new one
Call_reconnects(op, filepath, level, o) ==
  LET this == [op |-> op, filepath |-> filepath, level |-> level,
               before |-> inbound, gone |-> peerGone, wrote |-> o.wrote,
               reads |-> o.reads, timeouts |-> o.timeouts, raise |-> o.raise,
               ret |-> o.ret, rest |-> o.rest]
  IN /\ inbound' = o.rest
     /\ last' = this
     /\ writes' = IF recording THEN writes \o o.wrote ELSE writes
     /\ calls' = IF recording THEN Append(calls, this) ELSE calls
     /\ opens' = IF o.raise \in {"EOFError", "socket.error"} THEN opens + 1
                 ELSE opens
     /\ UNCHANGED <<pc, telnet, closes, disposals, delRaise, peerGone,
                    delivered, recording>>
     /\ UNCHANGED stepVars


\* a command-method call with outcome o
Call(op, filepath, level, o) ==
  LET this == [op |-> op, filepath |-> filepath, level |-> level,
               before |-> inbound, gone |-> peerGone, wrote |-> o.wrote,
               reads |-> o.reads, timeouts |-> o.timeouts, raise |-> o.raise,
               ret |-> o.ret, rest |-> o.rest]
  IN /\ inbound' = o.rest
     /\ last' = this
     /\ writes' = IF recording THEN writes \o o.wrote ELSE writes
     /\ calls' = IF recording THEN Append(calls, this) ELSE calls
     /\ UNCHANGED <<pc, telnet, opens, closes, disposals, delRaise, peerGone,
                    delivered, recording>>
     /\ UNCHANGED stepVars

\* the client is in use, constructed and not yet disposed of; a recording
\* run is kept finite
CanCall ==
  /\ pc = "live"
  /\ telnet = "open"
  /\ recording => Len(calls) < MaxCalls

\* whether sendall succeeds: always while the peer is there
SendOutcomes == IF peerGone THEN BOOLEAN ELSE {TRUE}

HashFile(filepath, sendOk) ==
  /\ CanCall
  /\ Call("hashFile", filepath, DefaultLevel,
          hashFile(filepath, inbound, peerGone, sendOk))

PrintFile(filepath, sendOk) ==
  /\ CanCall
  /\ Call("printFile", filepath, DefaultLevel,
          printFile(filepath, inbound, peerGone, sendOk))

GetStatusResponse(level, sendOk) ==
  /\ CanCall
  /\ Call("getStatusResponse", <<>>, level,
          getStatusResponse(level, inbound, peerGone, sendOk))

IsPrinting(sendOk) ==
  /\ CanCall
  /\ Call("isPrinting", <<>>, DefaultLevel,
          isPrinting(inbound, peerGone, sendOk))

\* the printer sends text
Deliver(chunk) ==
  /\ telnet = "open"
  /\ ~peerGone
  /\ delivered < MaxDeliveries
  /\ delivered' = delivered + 1
  /\ inbound' = inbound \o chunk
  /\ UNCHANGED <<pc, telnet, opens, closes, disposals, delRaise, peerGone,
                 recording, writes, calls, last>>
  /\ UNCHANGED stepVars

\* the printer closes the connection
PeerClose ==
  /\ telnet = "open"
  /\ ~peerGone
  /\ peerGone' = TRUE
  /\ UNCHANGED <<pc, telnet, opens, closes, disposals, delRaise, inbound,
                 delivered, recording, writes, calls, last>>
  /\ UNCHANGED stepVars

Next ==
  \/ \E connected \in BOOLEAN : Construct(connected)
  \/ Del
  \/ \E filepath \in Filepaths, sendOk \in SendOutcomes : HashFile(filepath, sendOk)
  \/ \E filepath \in Filepaths, sendOk \in SendOutcomes : PrintFile(filepath, sendOk)
  \/ \E level \in Levels, sendOk \in SendOutcomes : GetStatusResponse(level, sendOk)
  \/ \E sendOk \in SendOutcomes : IsPrinting(sendOk)
  \/ \E chunk \in Chunks : Deliver(chunk)
  \/ PeerClose

Spec == Init /\ [][Next]_vars

\* the runs of a client over a recording transport: every call and every
\* write is kept, so the number of calls and the printer's texts are bounded
RecordedChunks == {HashLine, EmptyLine, PrintingLine}
RecordedLevels == {0, MaxLevel}

NextRecorded ==
  \/ \E filepath \in Filepaths, sendOk \in SendOutcomes : HashFile(filepath, sendOk)
  \/ \E filepath \in Filepaths, sendOk \in SendOutcomes : PrintFile(filepath, sendOk)
  \/ \E level \in RecordedLevels, sendOk \in SendOutcomes : GetStatusResponse(level, sendOk)
  \/ \E sendOk \in SendOutcomes : IsPrinting(sendOk)
  \/ \E chunk \in RecordedChunks : Deliver(chunk)
  \/ PeerClose

SpecRecorded == InitRecorded /\ [][NextRecorded]_vars

\* ------------------------------------------------- calls, step by step
\* The command methods as the sequence of their telnet.write and
\* _readResponse calls, so that the printer's reply to a command arrives
\* after the command was written and before, or after, the read that waits
\* for it ends, and so that two callers' steps can interleave.  The printer
\* answers the commands in the order written, each with one line.
Replies == {HashLine, ErrorLine, PrintingLine}

OwnersOf(seq) == {seq[i] : i \in 1..Len(seq)}

StepOps == {"hashFile", "printFile", "getStatusResponse", "isPrinting"}

\* the line the method writes first
commandOf(op, filepath) ==
  CASE op = "hashFile" -> hashFileCommand(filepath)
    [] op = "printFile" -> printFileCommand(filepath)
    [] op = "getStatusResponse" -> getStatusCommand(DefaultLevel)
    [] op = "isPrinting" -> getStatusCommand(DefaultLevel)

\* caller c calls op and the method writes its command; printFile returns
\* then and there
Send(c, op, filepath) ==
  /\ pc = "live"
  /\ telnet = "open"
  /\ recording
  /\ Len(writes) < MaxCalls
  /\ proc[c].pc = "idle"
  /\ serial => \A d \in Callers : proc[d].pc = "idle"
  /\ \E w \in {_sendRawGCode(commandOf(op, filepath), TRUE)} :
       writes' = writes \o w.wrote
  /\ senders' = Append(senders, c)
  /\ IF op = "printFile"
     THEN /\ finished' = [caller |-> c, cmd |-> Len(writes) + 1, op |-> op,
                          took |-> {}, left |-> OwnersOf(owners),
                          raise |-> "none", ret |-> PyNone]
          /\ proc' = proc
     ELSE /\ proc' = [proc EXCEPT ![c] = [pc |-> "sent", op |-> op,
                                          cmd |-> Len(writes) + 1]]
          /\ finished' = finished
  /\ UNCHANGED <<pc, telnet, opens, closes, disposals, delRaise, inbound,
                 peerGone, delivered, recording, calls, last, serial,
                 answered, owners>>

\* what the method makes of the line its read returned: [again, raise, ret]
afterRead(p, q, gone) ==
  LET r == _readResponse(q, gone, DefaultTimeout)
      o == IF p.op = "isPrinting" THEN isPrinting(q, gone, TRUE)
           ELSE getStatusResponse(DefaultLevel, q, gone, TRUE)
  IN IF p.op = "hashFile"
     THEN IF r.raise # "none"
          THEN [again |-> FALSE, raise |-> r.raise, ret |-> NoValue]
          ELSE IF p.pc = "sent" /\ hashFileRereads(r.s)
          THEN [again |-> TRUE, raise |-> "none", ret |-> NoValue]
          ELSE [again |-> FALSE, raise |-> "none", ret |-> PyStr(hashFileResult(r.s))]
     ELSE [again |-> FALSE, raise |-> o.raise, ret |-> o.ret]

\* the wait of caller c's _readResponse ends: with a line if one has been
\* received, else by timeout with what there is
Read(c) ==
  /\ proc[c].pc \in {"sent", "reread"}
  /\ \E r \in {_readResponse(inbound, peerGone,
                             IF proc[c].op = "hashFile" /\ proc[c].pc = "sent"
                             THEN HashTimeout ELSE DefaultTimeout)},
        a \in {afterRead(proc[c], inbound, peerGone)} :
       \E n \in {Len(inbound) - Len(r.rest)} :
         /\ inbound' = r.rest
         /\ owners' = SubSeq(owners, n + 1, Len(owners))
         /\ IF a.again
            THEN /\ proc' = [proc EXCEPT ![c].pc = "reread"]
                 /\ finished' = finished
            ELSE /\ proc' = [proc EXCEPT ![c] = Idle]
                 /\ finished' = [caller |-> c, cmd |-> proc[c].cmd,
                                 op |-> proc[c].op,
                                 took |-> OwnersOf(SubSeq(owners, 1, n)),
                                 left |-> OwnersOf(SubSeq(owners, n + 1, Len(owners))),
                                 raise |-> a.raise, ret |-> a.ret]
  /\ UNCHANGED <<pc, telnet, opens, closes, disposals, delRaise, peerGone,
                 delivered, recording, writes, calls, last, serial,
                 senders, answered>>

\* the printer answers the oldest command it has not answered yet
Reply(chunk) ==
  /\ telnet = "open"
  /\ ~peerGone
  /\ answered < Len(writes)
  /\ answered' = answered + 1
  /\ inbound' = inbound \o chunk
  /\ owners' = owners \o [i \in 1..Len(chunk) |-> answered + 1]
  /\ UNCHANGED <<pc, telnet, opens, closes, disposals, delRaise, peerGone,
                 delivered, recording, writes, calls, last, serial, proc,
                 senders, finished>>

InitStepped(ser) ==
  /\ pc = "live"
  /\ telnet = "open"
  /\ opens = 1
  /\ closes = 0
  /\ disposals = 0
  /\ delRaise = "none"
  /\ inbound = <<>>
  /\ peerGone = FALSE
  /\ delivered = 0
  /\ recording = TRUE
  /\ writes = <<>>
  /\ calls = <<>>
  /\ last = NoCall
  /\ InitSteps(ser)

\* the callers take turns: a call begins only when no other is under way
InitSerial == InitStepped(TRUE)

\* the callers call whenever they like
InitConcurrent == InitStepped(FALSE)

NextSteps ==
  \/ \E c \in Callers, op \in StepOps, filepath \in Filepaths : Send(c, op, filepath)
  \/ \E c \in Callers : Read(c)
  \/ \E chunk \in Replies : Reply(chunk)

SpecSerial == InitSerial /\ [][NextSteps]_vars

SpecConcurrent == InitConcurrent /\ [][NextSteps]_vars

TypeOK ==
  /\ pc \in {"new", "live", "failed"}
  /\ telnet \in {"unset", "open", "closed"}
  /\ opens \in 0..1
  /\ closes \in 0..1
  /\ disposals \in 0..MaxDisposals
  /\ delRaise \in {"none", "AttributeError"}
  /\ peerGone \in BOOLEAN
  /\ delivered \in 0..MaxDeliveries
  /\ recording \in BOOLEAN
  /\ Len(calls) <= MaxCalls
  /\ last.raise \in {"none", "socket.error", "EOFError", "ValueError",
                     "KeyError", "TypeError"}
  /\ serial \in BOOLEAN
  /\ \A c \in Callers : proc[c].pc \in {"idle", "sent", "reread"}
  /\ Len(senders) <= Len(writes)
  /\ answered \in 0..Len(senders)
  /\ Len(owners) <= Len(inbound)
  /\ finished.cmd \in 0..Len(senders)

\* ------------------------------------------------------------------ claims
\* the text a call took from the connection
Consumed(c) == SubSeq(c.before, 1, Len(c.before) - Len(c.rest))

RECURSIVE CountLF(_)
CountLF(s) == IF s = <<>> THEN 0
              ELSE (IF Head(s) = LF THEN 1 ELSE 0) + CountLF(Tail(s))

\* the call read exactly n response lines: it took nothing but n
\* newline-terminated lines, or, when fewer had arrived, all there was
TookLines(c, n) ==
  /\ c.before = Consumed(c) \o c.rest
  /\ CountLF(Consumed(c)) <= n
  /\ \/ CountLF(Consumed(c)) = n /\ Consumed(c)[Len(Consumed(c))] = LF
     \/ c.rest = <<>>

IsErrorLine(s) == Len(s) >= 6 /\ SubSeq(s, 1, 6) = <<"E", "r", "r", "o", "r", ":">>
IsMissingLine(s) ==
  /\ Len(s) >= 16
  /\ SubSeq(s, 1, 16) = <<"C", "a", "n", "n", "o", "t", " ", "f", "i", "n", "d",
                          " ", "f", "i", "l", "e">>

\* C1: hashFile(filepath) writes exactly the line 'M38 <filepath>\n', and when
\* the first response line it reads starts with neither "Error:" nor "Cannot
\* find file" it returns that line unchanged, having read exactly one line.
C1_HashFileIdentity ==
  last.op = "hashFile" =>
    /\ last.wrote = << <<"M", "3", "8", " ">> \o last.filepath \o <<LF>> >>
    /\ (Len(last.reads) >= 1 /\ ~IsErrorLine(last.reads[1])
                             /\ ~IsMissingLine(last.reads[1]))
         => /\ last.raise = "none"
            /\ last.ret = PyStr(last.reads[1])
            /\ Len(last.reads) = 1
            /\ Len(last.timeouts) = 1
            /\ TookLines(last, 1)

C1_Witness ==
  /\ last.op = "hashFile"
  /\ last.before = HashLine \o PrintingLine
  /\ last.reads = << <<"d", "a", "3", "9">> >>
  /\ last.ret = PyStr(<<"d", "a", "3", "9">>)
  /\ last.rest = PrintingLine

\* C2: when the first response line hashFile reads starts with "Error:", it
\* drops that line and reads exactly one further line; the result is that
\* second line unchanged, or '' when it starts with "Cannot find file".
C2_HashFileSkipsOneError ==
  (last.op = "hashFile" /\ Len(last.reads) >= 1 /\ IsErrorLine(last.reads[1])) =>
    /\ Len(last.timeouts) = 2
    /\ TookLines(last, 2)
    /\ last.raise = "none" =>
         /\ Len(last.reads) = 2
         /\ last.ret = PyStr(IF IsMissingLine(last.reads[2]) THEN <<>>
                             ELSE last.reads[2])
    /\ last.raise # "none" => Len(last.reads) = 1 /\ last.raise = "EOFError"

C2_Witness ==
  /\ last.op = "hashFile"
  /\ last.before = ErrorLine \o HashLine
  /\ last.reads = << <<"E", "r", "r", "o", "r", ":", " ", "T">>, <<"d", "a", "3", "9">> >>
  /\ last.ret = PyStr(<<"d", "a", "3", "9">>)

\* the line hashFile decides on: the first line, or the line read again after
\* an "Error:" line
HasDecisiveLine(c) ==
  /\ Len(c.reads) >= 1
  /\ IsErrorLine(c.reads[1]) => Len(c.reads) = 2
DecisiveLine(c) == IF IsErrorLine(c.reads[1]) THEN c.reads[2] ELSE c.reads[1]

\* C3: whenever the line hashFile decides on starts with "Cannot find file",
\* hashFile raises nothing and returns the empty string.
C3_HashFileNotFound ==
  (last.op = "hashFile" /\ HasDecisiveLine(last) /\ IsMissingLine(DecisiveLine(last))) =>
    /\ last.raise = "none"
    /\ last.ret = PyStr(<<>>)

C3_Witness ==
  /\ last.op = "hashFile"
  /\ last.before = ErrorLine \o MissingLine
  /\ Len(last.reads) = 2
  /\ IsMissingLine(last.reads[2])
  /\ last.raise = "none"
  /\ last.ret = PyStr(<<>>)

\* the line 'M408 S<d>\n' for a one-character level d
StatusLine(d) == <<"M", "4", "0", "8", " ", "S", d, LF>>

SnapshotStatusIs(line, code) ==
  LET j == json_loads(line)
  IN /\ j.raise = "none"
     /\ j.val.t = "dict"
     /\ getitem(j.val, StatusKey).raise = "none"
     /\ eqStr(getitem(j.val, StatusKey).val, code)

\* the line parses to a snapshot whose status field is some string
SnapshotHasStatus(line) ==
  LET j == json_loads(line)
  IN /\ j.raise = "none"
     /\ j.val.t = "dict"
     /\ getitem(j.val, StatusKey).raise = "none"
     /\ getitem(j.val, StatusKey).val.t = "str"

\* C5: isPrinting writes 'M408 S2\n' once and reads one line; it returns true
\* exactly when that line yields a snapshot whose status is 'P', and false
\* for any other status code and for an empty line.
C5_IsPrinting ==
  last.op = "isPrinting" =>
    /\ last.wrote = <<StatusLine("2")>>
    /\ Len(last.timeouts) <= 1
    /\ last.raise # "socket.error" => Len(last.timeouts) = 1 /\ TookLines(last, 1)
    /\ (last.raise = "none" /\ last.ret = PyBool(TRUE))
         <=> (Len(last.reads) = 1 /\ SnapshotStatusIs(last.reads[1], <<"P">>))
    /\ (Len(last.reads) = 1 /\ last.reads[1] = <<>>)
         => (last.raise = "none" /\ last.ret = PyBool(FALSE))
    /\ (Len(last.reads) = 1 /\ SnapshotHasStatus(last.reads[1])
          /\ ~SnapshotStatusIs(last.reads[1], <<"P">>))
         => (last.raise = "none" /\ last.ret = PyBool(FALSE))

C5_Witness ==
  /\ last.op = "isPrinting"
  /\ last.before = PrintingLine
  /\ last.wrote = <<StatusLine("2")>>
  /\ last.ret = PyBool(TRUE)

\* no failure of the call comes from the client: what it raises, if anything,
\* is the peer having gone or a line that does not parse
Served(c) ==
  /\ Len(c.wrote) = 1
  /\ c.raise \in {"EOFError", "socket.error"} => c.gone
  /\ c.raise \in {"none", "EOFError", "socket.error", "ValueError", "KeyError",
                  "TypeError"}

\* C6: a getStatusResponse call that reads an empty line raises nothing and
\* returns None, and the calls made after it are still served.
C6_EmptyStatusIsNone ==
  \A i \in 1..Len(calls) :
    (calls[i].op = "getStatusResponse" /\ calls[i].reads = << <<>> >>) =>
      /\ calls[i].raise = "none"
      /\ calls[i].ret = PyNone
      /\ telnet = "open"
      /\ \A k \in (i + 1)..Len(calls) : Served(calls[k])

C6_Witness ==
  /\ Len(calls) = 2
  /\ calls[1].op = "getStatusResponse"
  /\ calls[1].before = EmptyLine \o HashLine
  /\ calls[1].reads = << <<>> >>
  /\ calls[1].ret = PyNone
  /\ calls[2].op = "hashFile"
  /\ calls[2].raise = "none"
  /\ calls[2].ret = PyStr(<<"d", "a", "3", "9">>)

\* the one command line a call with a level that is not negative stands for
CommandLine(c) ==
  CASE c.op = "hashFile" -> <<"M", "3", "8", " ">> \o c.filepath \o <<LF>>
    [] c.op = "printFile" -> <<"M", "3", "2", " ">> \o c.filepath \o <<LF>>
    [] c.op = "getStatusResponse" ->
         StatusLine(IF c.level = 0 THEN "0" ELSE IF c.level = 1 THEN "1" ELSE "2")
    [] c.op = "isPrinting" -> StatusLine("2")

\* C7: the transport has recorded exactly one command line per call issued,
\* the i-th recorded line being the command of the i-th call.
C7_OneLinePerCallInOrder ==
  /\ Len(writes) = Len(calls)
  /\ \A i \in 1..Len(calls) :
       /\ writes[i] = CommandLine(calls[i])
       /\ CountLF(writes[i]) = 1

C7_Witness ==
  /\ Len(calls) = 2
  /\ calls[1].op = "printFile"
  /\ calls[1].filepath = <<"b", ".", "g">>
  /\ calls[2].op = "hashFile"
  /\ calls[2].filepath = <<"a">>
  /\ writes = << <<"M", "3", "2", " ", "b", ".", "g", LF>>,
                 <<"M", "3", "8", " ", "a", LF>> >>

\* C8, as claimed: constructing opens exactly one connection, disposing
\* closes it exactly once however often it is repeated, and no disposal
\* raises, that of a client whose construction failed included.
C8_DisposalSafe ==
  /\ pc = "live" => opens = 1
  /\ (pc = "live" /\ disposals >= 1) => closes = 1
  /\ closes <= opens
  /\ delRaise = "none"

\* C9: at most one connection is live, and at most one is ever opened: no
\* call opens another, neither after the peer has gone nor after a failed
\* construction.
C9_AtMostOneConnection ==
  /\ opens \in {0, 1}
  /\ opens - closes \in {0, 1}
  /\ pc = "failed" => opens = 0
  /\ last.op # "none" => opens = 1

C9_Witness ==
  /\ last.op = "hashFile"
  /\ last.gone
  /\ last.raise = "EOFError"
  /\ opens = 1
  /\ telnet = "open"

\* the calls that read a response
Reads(op) == op \in {"hashFile", "getStatusResponse", "isPrinting"}

\* C10: a read that ends by timeout raises nothing and yields the text
\* received so far; with nothing received hashFile returns '',
\* getStatusResponse None and isPrinting false.
C10_TimeoutIsNotAnError ==
  (Reads(last.op) /\ ~last.gone /\ CountLF(last.before) = 0) =>
    /\ Len(last.reads) = 1
    /\ last.reads[1] = last.before
    /\ last.rest = <<>>
    /\ last.raise # "EOFError"
    /\ last.before = <<>> =>
         /\ last.raise = "none"
         /\ last.op = "hashFile" => last.ret = PyStr(<<>>)
         /\ last.op = "getStatusResponse" => last.ret = PyNone
         /\ last.op = "isPrinting" => last.ret = PyBool(FALSE)

C10_Witness ==
  /\ last.op = "hashFile"
  /\ ~last.gone
  /\ last.before = <<>>
  /\ last.timeouts = <<120>>
  /\ last.raise = "none"
  /\ last.ret = PyStr(<<>>)

\* the received text is exactly one complete line
IsOneLine(q) == CountLF(q) = 1 /\ q[Len(q)] = LF

IsMalformed(line) == line # <<>> /\ json_loads(line).raise = "ValueError"

\* the line is JSON for null
IsJsonNull(line) ==
  json_loads(line).raise = "none" /\ json_loads(line).val = PyNone

StatusCall(op) == op \in {"getStatusResponse", "isPrinting"}

C15_PrintFileFireAndForget ==
  last.op = "printFile" =>
    /\ last.wrote = << <<"M", "3", "2", " ">> \o last.filepath \o <<LF>> >>
    /\ last.reads = <<>>
    /\ last.timeouts = <<>>
    /\ last.rest = last.before
    /\ last.raise \in {"none", "socket.error"}
    /\ last.raise = "socket.error" => last.gone
    /\ last.raise = "none" => last.ret = PyNone

C15_Witness ==
  /\ last.op = "printFile"
  /\ last.filepath = <<"b", ".", "g">>
  /\ last.before = HashLine
  /\ last.rest = HashLine
  /\ last.wrote = << <<"M", "3", "2", " ", "b", ".", "g", LF>> >>
  /\ last.ret = PyNone

\* C16: hashFile makes one read when the first line does not start with
\* "Error:" and two when it does, never more; of two lines that both start
\* with "Error:" the second is its result.
C16_HashFileSkipsAtMostOne ==
  last.op = "hashFile" =>
    /\ Len(last.timeouts) <= 2
    /\ Len(last.reads) <= 2
    /\ CountLF(Consumed(last)) <= 2
    /\ (Len(last.reads) >= 1 /\ ~IsErrorLine(last.reads[1]))
         => Len(last.timeouts) = 1
    /\ (Len(last.reads) >= 1 /\ IsErrorLine(last.reads[1]))
         => Len(last.timeouts) = 2
    /\ (Len(last.reads) = 2 /\ IsErrorLine(last.reads[2]))
         => (last.raise = "none" /\ last.ret = PyStr(last.reads[2]))

C16_Witness ==
  /\ last.op = "hashFile"
  /\ last.before = ErrorLine \o ErrorLine
  /\ Len(last.timeouts) = 2
  /\ last.ret = PyStr(<<"E", "r", "r", "o", "r", ":", " ", "T">>)

\* the line without the carriage returns and newlines at its end
RECURSIVE TrimLineEnd(_)
TrimLineEnd(s) ==
  IF s # <<>> /\ s[Len(s)] \in {CR, LF}
  THEN TrimLineEnd(SubSeq(s, 1, Len(s) - 1))
  ELSE s

RECURSIVE UpToNewline(_)
UpToNewline(s) ==
  IF s = <<>> THEN <<>>
  ELSE IF Head(s) = LF THEN <<LF>>
  ELSE <<Head(s)>> \o UpToNewline(Tail(s))

\* C17, as claimed: a read takes from the received text exactly the
\* characters through the first newline and returns them with only the
\* carriage returns and newlines at their end removed.
C17_OnlyLineEndStripped ==
  (Reads(last.op) /\ Len(last.reads) >= 1 /\ CountLF(last.before) >= 1) =>
    /\ last.reads[1] = TrimLineEnd(UpToNewline(last.before))
    /\ Len(last.timeouts) = 1 => last.before = UpToNewline(last.before) \o last.rest

\* ---------------------------------------------------------------- C13
\* the methods that read a response line and interpret it
ReadingOps == {"hashFile", "getStatusResponse", "isPrinting"}

\* every command so far was written by the one caller "A"
SingleCaller == \A k \in 1..Len(senders) : senders[k] = "A"

\* C13: under sequential use by a single caller, when a call returns no
\* line the printer sent in answer to that call's command or to an earlier
\* one is left unread, and the line a reading call interprets is the
\* printer's answer to that call's own command.
C13_CompleteRoundTrip ==
  (SingleCaller /\ finished.op # "none") =>
    /\ \A k \in finished.left : k > finished.cmd
    /\ (finished.op \in ReadingOps /\ finished.took # {}) =>
         finished.took = {finished.cmd}

\* ---------------------------------------------------------------- C14
\* a call has interpreted the answer to a command of another caller whose
\* call is still under way, waiting for that very answer
C14_InterleavedCrossRead ==
  /\ finished.op \in ReadingOps
  /\ \E k \in finished.took :
       /\ senders[k] # finished.caller
       /\ proc[senders[k]].pc # "idle"
       /\ proc[senders[k]].cmd = k

\* C14: when the callers serialize their calls, no call interprets a line
\* the printer sent in answer to a command of another caller.
C14_SerializedCallersIsolated ==
  finished.op \in ReadingOps =>
    \A k \in finished.took : senders[k] = finished.caller

\* C14, first half: callers that do not serialize can reach the interleaved
\* cross-read; callers that do cannot.
C14_NoInterleavedCrossRead == ~C14_InterleavedCrossRead

====
